---- MODULE Spec2Model ----
(***************************************************************************)
(* Model of pynetdicom's Association (src/pynetdicom/association.py): one  *)
(* worker thread per association, created by the constructor, running      *)
(* Association.run; the threads that call Abort / Release / Kill on it;     *)
(* and the collaborators run() polls (ACSE, DIMSE, DUL, the local AE).      *)
(* The collaborators' code is not part of association.py: they are modelled *)
(* from their description in spec.md (sections 4.2 - 4.5, 5, 8).            *)
(***************************************************************************)
EXTENDS Naturals, Integers, Sequences, FiniteSets, TLC

(* ------------------------------ bounds --------------------------------- *)
NumAssoc == 2              \* association objects the model may construct
MaxMsgs == 2               \* messages the peers send, over all associations
MaxPeerEvents == 2         \* peer / DUL events, over all associations
MaxUserCalls == 1          \* calls of Abort / Release / Kill by other threads
NumMoves == 3              \* C-MOVE requests whose generators are consumed

Assocs == 1..NumAssoc
Moves == 1..NumMoves

(* ------------------------- configuration data -------------------------- *)
VerificationUID == "1.2.840.10008.1.1"
CTImageStorageUID == "1.2.840.10008.5.1.4.1.1.2"
UIDs == {VerificationUID, CTImageStorageUID}
ImplicitVRLittleEndian == "1.2.840.10008.1.2"
ExplicitVRLittleEndian == "1.2.840.10008.1.2.1"

A_ASSOCIATE_Result_RejectedTransient == "RejectedTransient"
A_ASSOCIATE_Diag_LocalLimitExceeded == "LocalLimitExceeded"

\* AE configurations: what the AE accepts as SCP (abstract syntax, transfer
\* syntaxes) and what it proposes as SCU (id, abstract syntax, transfer
\* syntaxes), and the configured maximum of concurrent associations.
AEConfigs ==
    { [ AcceptablePresentationContexts |->
            << <<VerificationUID, <<ImplicitVRLittleEndian>> >> >>,
        PresentationContextDefinitionList |->
            << <<1, VerificationUID, <<ImplicitVRLittleEndian>> >> >> ],
      [ AcceptablePresentationContexts |->
            << <<VerificationUID, <<ImplicitVRLittleEndian>> >>,
               <<CTImageStorageUID,
                 <<ImplicitVRLittleEndian, ExplicitVRLittleEndian>> >> >>,
        PresentationContextDefinitionList |->
            << <<1, CTImageStorageUID,
                 <<ExplicitVRLittleEndian, ImplicitVRLittleEndian>> >> >> ] }

\* A-ASSOCIATE requests a peer may send to an acceptor (its proposed contexts)
PeerRequests ==
    { << <<1, VerificationUID, <<ImplicitVRLittleEndian>> >> >>,
      << <<1, VerificationUID,
           <<ExplicitVRLittleEndian, ImplicitVRLittleEndian>> >>,
         <<3, CTImageStorageUID, <<ExplicitVRLittleEndian>> >> >> }

\* What a peer acceptor may accept of a requestor's proposal
PeerAcceptable ==
    { << <<VerificationUID, <<ImplicitVRLittleEndian>> >>,
         <<CTImageStorageUID, <<ImplicitVRLittleEndian>> >> >>,
      << <<CTImageStorageUID, <<ExplicitVRLittleEndian>> >> >> }

\* Presentation-context IDs a peer may put on a message
MsgPcids == {1, 3}

VARIABLES
    AE,                  \* the local AE's configuration (constant in a run)
    MaxNumberOfAssociations, \* AE.MaxNumberOfAssociations (constant in a run)
    Associations,        \* AE.Associations: the registered associations
    listener,            \* the AE's bookkeeping: pending, appended, removed
    mode,                \* self.mode: "None" before construction
    pc,                  \* position of the worker thread in run()
    ACSE,                \* TRUE once run() has set self.ACSE / self.DIMSE
    DUL,                 \* state of self.DUL's reader
    result, diag,        \* run()'s locals handed to ACSE.Accept
    AcceptedPresentationContexts, \* self.ACSE.AcceptedPresentationContexts
    SOPClassesAsSCP, SOPClassesAsSCU,
    AssociationEstablished, AssociationRefused,
    _Kill,               \* self._Kill
    request,             \* what run() handed to ACSE.Request
    ans, response,       \* run()'s locals returned by ACSE.Request
    callbacks,           \* the AE callbacks run() has invoked, in order
    inbox,               \* completed messages DIMSE.Receive will return
    dispatched,          \* the SCP handlers run() has run, in order
    releaseReq, abortInd,\* peer release request / abort: no, pending, seen
    idleExpired,         \* DUL.idle_timer_expired()
    abortSent, releaseSent, \* ACSE.Abort / ACSE.Release issued
    upc, uop,            \* the calling thread: position and operation
    ctor,                \* the arguments the constructor was called with
    MaxPDULength,        \* self.ACSE.MaxPDULength of a requestor
    scu,                 \* the outcome of a caller's SCU(ds, id)
    moves,               \* the generators made by calls of on_c_move
    poolAtCheck,         \* history: active associations at the capacity check
    killedBy             \* history: the loop branches that called Kill

vars == << AE, ctor, MaxPDULength, scu, moves, MaxNumberOfAssociations, Associations, listener, mode, pc,
           ACSE, DUL,
           result, diag, AcceptedPresentationContexts, SOPClassesAsSCP,
           SOPClassesAsSCU, AssociationEstablished, AssociationRefused, _Kill,
           request, ans, response, callbacks, inbox, dispatched, releaseReq,
           abortInd, idleExpired, abortSent, releaseSent, upc, uop,
           poolAtCheck, killedBy >>

(* ------------------------------ helpers -------------------------------- *)
\* SOPclass.UID2SOPClass: the service class registered for a UID
UID2SOPClass(uid) ==
    CASE uid = VerificationUID -> "VerificationSOPClass"
      [] uid = CTImageStorageUID -> "CTImageStorageSOPClass"

RECURSIVE FirstCommon(_, _)
\* first transfer syntax of the proposal (in proposal order) that the
\* acceptor supports too; "None" when there is none
FirstCommon(proposed, supported) ==
    IF proposed = << >> THEN "None"
    ELSE IF \E j \in 1..Len(supported) : supported[j] = Head(proposed)
         THEN Head(proposed)
         ELSE FirstCommon(Tail(proposed), supported)

\* the transfer syntaxes the acceptable list gives for an abstract syntax
SupportedFor(abstract, acceptable) ==
    IF \E j \in 1..Len(acceptable) : acceptable[j][1] = abstract
    THEN acceptable[CHOOSE j \in 1..Len(acceptable) :
                        /\ acceptable[j][1] = abstract
                        /\ \A k \in 1..(j-1) : acceptable[k][1] # abstract][2]
    ELSE << >>

RECURSIVE Negotiate(_, _)
\* ACSE negotiation: the accepted contexts (id, abstract syntax, transfer
\* syntax) of a proposal against an acceptable list
Negotiate(proposed, acceptable) ==
    IF proposed = << >> THEN << >>
    ELSE LET c == Head(proposed)
             ts == FirstCommon(c[3], SupportedFor(c[2], acceptable))
         IN  IF ts = "None" THEN Negotiate(Tail(proposed), acceptable)
             ELSE << <<c[1], c[2], ts>> >>
                      \o Negotiate(Tail(proposed), acceptable)

\* run(): the (pc id, SOP class, transfer syntax) list built from
\* ACSE.AcceptedPresentationContexts
BuildSOPClasses(contexts) ==
    [i \in 1..Len(contexts) |->
        <<contexts[i][1], UID2SOPClass(contexts[i][2]), contexts[i][3]>>]

\* the role-selection items with the two roles swapped
BuildRoleSelection_Swapped(contexts) ==
    [i \in 1..Len(contexts) |->
        [SOPClassUID |-> contexts[i][1], SCURole |-> 1, SCPRole |-> 0]]

\* run(): the role-selection items built on the requestor path
BuildRoleSelection(contexts) ==
    [i \in 1..Len(contexts) |->
        [SOPClassUID |-> contexts[i][1], SCURole |-> 0, SCPRole |-> 1]]

\* a handler that falls back on the first accepted context when the
\* message's presentation-context ID matches none
Handler_FirstContext(msg, sopclasses) ==
    LET matches == {i \in 1..Len(sopclasses) : sopclasses[i][1] = msg.pcid}
        k == IF matches = {} THEN 1
             ELSE CHOOSE i \in matches : \A j \in matches : j <= i
        s == sopclasses[k]
    IN  [handler |-> UID2SOPClass(msg.uid), matching_sop |-> matches # {},
         pcid |-> s[1], sopclass |-> s[2], transfersyntax |-> s[3],
         msg |-> msg, answer |-> "handler"]

\* run(): the handler object set up for a received message
Handler(msg, sopclasses) ==
    LET matches == {i \in 1..Len(sopclasses) : sopclasses[i][1] = msg.pcid}
    IN  IF matches = {}
        THEN [handler |-> UID2SOPClass(msg.uid), matching_sop |-> FALSE,
              pcid |-> 0, sopclass |-> "unset", transfersyntax |-> "unset",
              msg |-> msg, answer |-> "handler"]
        ELSE LET s == sopclasses[CHOOSE i \in matches :
                                     \A j \in matches : j <= i]
             IN  [handler |-> UID2SOPClass(msg.uid), matching_sop |-> TRUE,
                  pcid |-> s[1], sopclass |-> s[2], transfersyntax |-> s[3],
                  msg |-> msg, answer |-> "handler"]

\* associations that are established and whose worker has not finished
Active == {a \in Assocs : AssociationEstablished[a] /\ pc[a] # "done"}

RECURSIVE SumOver(_, _)
SumOver(f(_), S) ==
    IF S = {} THEN 0
    ELSE LET x == CHOOSE y \in S : TRUE IN f(x) + SumOver(f, S \ {x})

MsgsOf(a) == Len(inbox[a]) + Len(dispatched[a])
PeerEventsOf(a) ==
    (IF releaseReq[a] # "no" THEN 1 ELSE 0)
    + (IF abortInd[a] # "no" THEN 1 ELSE 0)
    + (IF idleExpired[a] THEN 1 ELSE 0)
    + (IF DUL[a] = "dead" THEN 1 ELSE 0)
UserCallsOf(a) == IF upc[a] # "none" THEN 1 ELSE 0

\* the maximum PDU lengths a peer may return in its A-ASSOCIATE response
PeerMaxPDULengths == {4096, 16382}

NoSCU == [raised |-> FALSE, sent |-> FALSE, handler |-> "None", pcid |-> 0,
          transfersyntax |-> "None", maxpdulength |-> 0]

(* ------------------------------- Init ---------------------------------- *)
Init ==
    /\ AE \in AEConfigs
    /\ MaxNumberOfAssociations \in {0, 1}
    /\ Associations = {}
    /\ listener = [a \in Assocs |-> "pending"]
    /\ mode = [a \in Assocs |-> "None"]
    /\ pc = [a \in Assocs |-> "unborn"]
    /\ ACSE = [a \in Assocs |-> FALSE]
    /\ DUL = [a \in Assocs |-> "none"]
    /\ result = [a \in Assocs |-> "None"]
    /\ diag = [a \in Assocs |-> "None"]
    /\ AcceptedPresentationContexts = [a \in Assocs |-> << >>]
    /\ SOPClassesAsSCP = [a \in Assocs |-> << >>]
    /\ SOPClassesAsSCU = [a \in Assocs |-> << >>]
    /\ AssociationEstablished = [a \in Assocs |-> FALSE]
    /\ AssociationRefused = [a \in Assocs |-> "None"]
    /\ _Kill = [a \in Assocs |-> FALSE]
    /\ request = [a \in Assocs |-> [contexts |-> << >>, userspdu |-> << >>]]
    /\ ans = [a \in Assocs |-> "None"]
    /\ response = [a \in Assocs |-> "None"]
    /\ callbacks = [a \in Assocs |-> << >>]
    /\ inbox = [a \in Assocs |-> << >>]
    /\ dispatched = [a \in Assocs |-> << >>]
    /\ releaseReq = [a \in Assocs |-> "no"]
    /\ abortInd = [a \in Assocs |-> "no"]
    /\ idleExpired = [a \in Assocs |-> FALSE]
    /\ abortSent = [a \in Assocs |-> FALSE]
    /\ releaseSent = [a \in Assocs |-> FALSE]
    /\ upc = [a \in Assocs |-> "none"]
    /\ uop = [a \in Assocs |-> "None"]
    /\ poolAtCheck = [a \in Assocs |-> -1]
    /\ killedBy = [a \in Assocs |-> {}]
    /\ ctor = [a \in Assocs |-> [ClientSocket |-> "None", RemoteAE |-> "None"]]
    /\ MaxPDULength = [a \in Assocs |-> 0]
    /\ scu = [a \in Assocs |-> NoSCU]
    /\ moves = [g \in Moves |->
                   [pos |-> "unborn", move_aet |-> "None", yielded |-> << >>]]

Call(a, name) == [callbacks EXCEPT ![a] = Append(@, name)]

(* --------------------- Association.__init__ ---------------------------- *)
\* the values a caller passes: None, or a client socket / a description of
\* the remote AE (objects, which are true in a condition)
ClientSockets == {"None", "socket"}
RemoteAEs == {"None", "dict"}
Truthy(v) == v # "None"

\* the constructor with only the first of its two checks
ConstructorRaises_OnlyNeither(ClientSocket, RemoteAE) ==
    ClientSocket = "None" /\ RemoteAE = "None"

\* __init__: the two checks that raise ValueError
ConstructorRaises(ClientSocket, RemoteAE) ==
    \/ ClientSocket = "None" /\ RemoteAE = "None"
    \/ Truthy(ClientSocket) /\ Truthy(RemoteAE)

\* __init__: "if ClientSocket: ... 'Acceptor'", "if RemoteAE: ... 'Requestor'"
ModeOf(ClientSocket, RemoteAE) ==
    IF Truthy(RemoteAE) THEN "Requestor"
    ELSE IF Truthy(ClientSocket) THEN "Acceptor"
    ELSE "None"

\* The constructor raises ValueError, or sets the fields, creates the DUL
\* provider and starts the worker thread before it returns the object.
Construct(a, ClientSocket, RemoteAE) ==
    /\ pc[a] = "unborn"
    /\ \A b \in Assocs : b < a => pc[b] # "unborn"
    /\ ctor' = [ctor EXCEPT ![a] = [ClientSocket |-> ClientSocket,
                                    RemoteAE |-> RemoteAE]]
    /\ IF ConstructorRaises(ClientSocket, RemoteAE)
       THEN /\ pc' = [pc EXCEPT ![a] = "ValueError"]
            /\ UNCHANGED << mode, DUL >>
       ELSE /\ mode' = [mode EXCEPT ![a] = ModeOf(ClientSocket, RemoteAE)]
            /\ DUL' = [DUL EXCEPT ![a] = "running"]
            /\ pc' = [pc EXCEPT ![a] = "run"]
    /\ UNCHANGED << AE, moves, MaxPDULength, scu, MaxNumberOfAssociations, Associations, listener, ACSE,
                    result, diag, AcceptedPresentationContexts,
                    SOPClassesAsSCP, SOPClassesAsSCU, AssociationEstablished,
                    AssociationRefused, _Kill, request, ans, response,
                    callbacks, inbox, dispatched, releaseReq, abortInd,
                    idleExpired, abortSent, releaseSent, upc, uop,
                    poolAtCheck, killedBy >>

(* ------------------------ the local AE's listener ---------------------- *)
\* The listener of the AE appends the association it has constructed for an
\* inbound connection to AE.Associations; the constructor has returned, so
\* the worker is already running.
AERegister(a) ==
    /\ mode[a] = "Acceptor"
    /\ listener[a] = "pending"
    /\ listener' = [listener EXCEPT ![a] = "appended"]
    /\ Associations' = Associations \cup {a}
    /\ UNCHANGED << AE, moves, MaxPDULength, scu, ctor,
                    MaxNumberOfAssociations, mode, pc, ACSE, DUL, result,
                    diag, AcceptedPresentationContexts, SOPClassesAsSCP,
                    SOPClassesAsSCU, AssociationEstablished,
                    AssociationRefused, _Kill, request, ans, response,
                    callbacks, inbox, dispatched, releaseReq, abortInd,
                    idleExpired, abortSent, releaseSent, upc, uop,
                    poolAtCheck, killedBy >>

\* The listener removes the associations whose worker has finished.
AEPrune ==
    /\ \E a \in Associations : pc[a] = "done"
    /\ Associations' = {a \in Associations : pc[a] # "done"}
    /\ listener' = [a \in Assocs |->
                       IF a \in Associations /\ pc[a] = "done"
                       THEN "removed" ELSE listener[a]]
    /\ UNCHANGED << AE, moves, MaxPDULength, scu, ctor,
                    MaxNumberOfAssociations, mode, pc, ACSE, DUL, result,
                    diag, AcceptedPresentationContexts, SOPClassesAsSCP,
                    SOPClassesAsSCU, AssociationEstablished,
                    AssociationRefused, _Kill, request, ans, response,
                    callbacks, inbox, dispatched, releaseReq, abortInd,
                    idleExpired, abortSent, releaseSent, upc, uop,
                    poolAtCheck, killedBy >>

(* --------------------------- Association.run --------------------------- *)
\* run(): self.ACSE and self.DIMSE are set
RunProviders(a) ==
    /\ pc[a] = "run"
    /\ ACSE' = [ACSE EXCEPT ![a] = TRUE]
    /\ pc' = [pc EXCEPT ![a] = IF mode[a] = "Acceptor"
                               THEN "capacity" ELSE "request"]
    /\ UNCHANGED << AE, moves, MaxPDULength, scu, ctor,
                    MaxNumberOfAssociations, Associations, listener, mode,
                    DUL, result, diag, AcceptedPresentationContexts,
                    SOPClassesAsSCP, SOPClassesAsSCU, AssociationEstablished,
                    AssociationRefused, _Kill, request, ans, response,
                    callbacks, inbox, dispatched, releaseReq, abortInd,
                    idleExpired, abortSent, releaseSent, upc, uop,
                    poolAtCheck, killedBy >>

\* run(), acceptor: the capacity check after the sleep
LimitExceeded(n, max) == n > max

RunCapacity(a) ==
    /\ pc[a] = "capacity"
    /\ IF LimitExceeded(Cardinality(Associations), MaxNumberOfAssociations)
       THEN /\ result' = [result EXCEPT
                              ![a] = A_ASSOCIATE_Result_RejectedTransient]
            /\ diag' = [diag EXCEPT
                              ![a] = A_ASSOCIATE_Diag_LocalLimitExceeded]
       ELSE UNCHANGED << result, diag >>
    /\ poolAtCheck' = [poolAtCheck EXCEPT ![a] = Cardinality(Active)]
    /\ pc' = [pc EXCEPT ![a] = "accept"]
    /\ UNCHANGED << AE, moves, MaxPDULength, scu, ctor,
                    MaxNumberOfAssociations, Associations, listener, mode,
                    ACSE, DUL, AcceptedPresentationContexts, SOPClassesAsSCP,
                    SOPClassesAsSCU, AssociationEstablished,
                    AssociationRefused, _Kill, request, ans, response,
                    callbacks, inbox, dispatched, releaseReq, abortInd,
                    idleExpired, abortSent, releaseSent, upc, uop, killedBy >>

\* ACSE.Accept: absent on a missing or malformed request (modelled as the
\* empty request) and when the whole association is rejected by a preset
\* result and diagnostic; otherwise the contexts accepted of the proposal.
ACSE_Accept(req, acceptable, res, dg) ==
    IF req = << >> THEN [present |-> FALSE, contexts |-> << >>]
    ELSE IF res # "None" /\ dg # "None"
         THEN [present |-> FALSE, contexts |-> << >>]
         ELSE [present |-> TRUE, contexts |-> Negotiate(req, acceptable)]

\* a test that takes every return value of ACSE.Accept for an association
AssocIsNone_Never(assoc) == FALSE

\* run(): "if assoc is None:"
AssocIsNone(assoc) == ~assoc.present

\* run(), acceptor: ACSE.Accept returns; Kill and return, or the accepted
\* callback and the SCP classes
RunAccept(a) ==
    /\ pc[a] = "accept"
    /\ \E req \in PeerRequests \cup {<< >>} :
         LET assoc == ACSE_Accept(req, AE.AcceptablePresentationContexts,
                                  result[a], diag[a])
         IN  /\ assoc.present => assoc.contexts # << >>
             /\ IF AssocIsNone(assoc)
                THEN /\ _Kill' = [_Kill EXCEPT ![a] = TRUE]
                     /\ pc' = [pc EXCEPT ![a] = "Kill227"]
                     /\ UNCHANGED << callbacks, AcceptedPresentationContexts,
                                     SOPClassesAsSCP >>
                ELSE /\ callbacks' = Call(a, "on_association_accepted")
                     /\ AcceptedPresentationContexts' =
                            [AcceptedPresentationContexts EXCEPT
                                ![a] = assoc.contexts]
                     /\ SOPClassesAsSCP' =
                            [SOPClassesAsSCP EXCEPT
                                ![a] = BuildSOPClasses(assoc.contexts)]
                     /\ pc' = [pc EXCEPT ![a] = "establish"]
                     /\ UNCHANGED _Kill
    /\ UNCHANGED << AE, moves, MaxPDULength, scu, ctor,
                    MaxNumberOfAssociations, Associations, listener, mode,
                    ACSE, DUL, result, diag, SOPClassesAsSCU,
                    AssociationEstablished, AssociationRefused, request, ans,
                    response, inbox, dispatched, releaseReq, abortInd,
                    idleExpired, abortSent, releaseSent, upc, uop,
                    poolAtCheck, killedBy >>

\* run(), requestor, "if ans:" branch: the accepted callback and the SCU
\* classes of the contexts the peer accepted
RequestAccepted(a, acc) ==
    /\ ans' = [ans EXCEPT ![a] = "True"]
    /\ response' = [response EXCEPT ![a] = "Accepted"]
    /\ callbacks' = Call(a, "on_association_accepted")
    /\ AcceptedPresentationContexts' =
           [AcceptedPresentationContexts EXCEPT ![a] = acc]
    /\ SOPClassesAsSCU' = [SOPClassesAsSCU EXCEPT
                              ![a] = BuildSOPClasses(acc)]
    /\ \E mp \in PeerMaxPDULengths :
           MaxPDULength' = [MaxPDULength EXCEPT ![a] = mp]
    /\ pc' = [pc EXCEPT ![a] = "establish"]
    /\ UNCHANGED << AssociationRefused, DUL >>

\* the "else:" branch without its return: run() goes on to "Assocation
\* established OK"
RequestRefused_NoReturn(a, resp) ==
    /\ ans' = [ans EXCEPT ![a] = "False"]
    /\ response' = [response EXCEPT ![a] = resp]
    /\ callbacks' = IF resp # "None"
                    THEN Call(a, "on_association_rejected")
                    ELSE callbacks
    /\ AssociationRefused' = [AssociationRefused EXCEPT ![a] = "True"]
    /\ DUL' = [DUL EXCEPT ![a] = "killed"]
    /\ pc' = [pc EXCEPT ![a] = "establish"]
    /\ UNCHANGED << AcceptedPresentationContexts, SOPClassesAsSCU,
                    MaxPDULength >>

\* run(), requestor, "else:" branch: the rejected callback if there is a
\* response, AssociationRefused, DUL.Kill() and return
RequestRefused(a, resp) ==
    /\ ans' = [ans EXCEPT ![a] = "False"]
    /\ response' = [response EXCEPT ![a] = resp]
    /\ callbacks' = IF resp # "None"
                    THEN Call(a, "on_association_rejected")
                    ELSE callbacks
    /\ AssociationRefused' = [AssociationRefused EXCEPT ![a] = "True"]
    /\ DUL' = [DUL EXCEPT ![a] = "killed"]
    /\ pc' = [pc EXCEPT ![a] = "done"]
    /\ UNCHANGED << AcceptedPresentationContexts, SOPClassesAsSCU,
                    MaxPDULength >>

\* run(), requestor: the role-selection items are built, ACSE.Request is
\* called and returns (ans, response): accepted with the contexts the peer
\* accepted, rejected with a response, or no response when the transport
\* closed first
RunRequest(a) ==
    /\ pc[a] = "request"
    /\ request' = [request EXCEPT ![a] =
          [contexts |-> AE.PresentationContextDefinitionList,
           userspdu |-> BuildRoleSelection(AE.AcceptablePresentationContexts)]]
    /\ \/ \E pa \in PeerAcceptable :
            LET acc == Negotiate(AE.PresentationContextDefinitionList, pa)
            IN  acc # << >> /\ RequestAccepted(a, acc)
       \/ \E resp \in {"Rejected", "None"} : RequestRefused(a, resp)
    /\ UNCHANGED << AE, moves, scu, ctor,
                    MaxNumberOfAssociations, Associations, listener, mode,
                    ACSE, result, diag, SOPClassesAsSCP,
                    AssociationEstablished, _Kill, inbox, dispatched,
                    releaseReq, abortInd, idleExpired, abortSent, releaseSent,
                    upc, uop, poolAtCheck, killedBy >>

\* run(): "Assocation established OK" and the established callback
RunEstablished(a) ==
    /\ pc[a] = "establish"
    /\ AssociationEstablished' = [AssociationEstablished EXCEPT ![a] = TRUE]
    /\ callbacks' = Call(a, "on_association_established")
    /\ pc' = [pc EXCEPT ![a] = "loop"]
    /\ UNCHANGED << AE, moves, MaxPDULength, scu, ctor,
                    MaxNumberOfAssociations, Associations, listener, mode,
                    ACSE, DUL, result, diag, AcceptedPresentationContexts,
                    SOPClassesAsSCP, SOPClassesAsSCU, AssociationRefused,
                    _Kill, request, ans, response, inbox, dispatched,
                    releaseReq, abortInd, idleExpired, abortSent, releaseSent,
                    upc, uop, poolAtCheck, killedBy >>

(* ------------------------ run(): the main loop ------------------------- *)
\* "while not self._Kill": leave the loop, or sleep and start an iteration
\* (whose body is for the acceptor only)
RunLoop(a) ==
    /\ pc[a] = "loop"
    /\ pc' = [pc EXCEPT ![a] = IF _Kill[a] THEN "done"
                               ELSE IF mode[a] = "Acceptor" THEN "receive"
                               ELSE "loop"]
    /\ UNCHANGED << AE, moves, MaxPDULength, scu, ctor,
                    MaxNumberOfAssociations, Associations, listener, mode,
                    ACSE, DUL, result, diag, AcceptedPresentationContexts,
                    SOPClassesAsSCP, SOPClassesAsSCU, AssociationEstablished,
                    AssociationRefused, _Kill, request, ans, response,
                    callbacks, inbox, dispatched, releaseReq, abortInd,
                    idleExpired, abortSent, releaseSent, upc, uop,
                    poolAtCheck, killedBy >>

\* DIMSE.Receive(Wait=False) and, for a message, the handler set up and run
RunReceive(a) ==
    /\ pc[a] = "receive"
    /\ IF inbox[a] = << >>
       THEN UNCHANGED << inbox, dispatched >>
       ELSE /\ dispatched' = [dispatched EXCEPT ![a] =
                   Append(@, Handler(Head(inbox[a]), SOPClassesAsSCP[a]))]
            /\ inbox' = [inbox EXCEPT ![a] = Tail(@)]
    /\ pc' = [pc EXCEPT ![a] = "release"]
    /\ UNCHANGED << AE, moves, MaxPDULength, scu, ctor,
                    MaxNumberOfAssociations, Associations, listener, mode,
                    ACSE, DUL, result, diag, AcceptedPresentationContexts,
                    SOPClassesAsSCP, SOPClassesAsSCU, AssociationEstablished,
                    AssociationRefused, _Kill, request, ans, response,
                    callbacks, releaseReq, abortInd, idleExpired, abortSent,
                    releaseSent, upc, uop, poolAtCheck, killedBy >>

\* "if self.ACSE.CheckRelease()": the released callback and Kill
RunCheckRelease(a) ==
    /\ pc[a] = "release"
    /\ IF releaseReq[a] = "pending"
       THEN /\ releaseReq' = [releaseReq EXCEPT ![a] = "seen"]
            /\ callbacks' = Call(a, "on_association_released")
            /\ _Kill' = [_Kill EXCEPT ![a] = TRUE]
            /\ killedBy' = [killedBy EXCEPT ![a] = @ \cup {"release"}]
            /\ pc' = [pc EXCEPT ![a] = "Kill333"]
       ELSE /\ pc' = [pc EXCEPT ![a] = "abort"]
            /\ UNCHANGED << releaseReq, callbacks, _Kill, killedBy >>
    /\ UNCHANGED << AE, moves, MaxPDULength, scu, ctor,
                    MaxNumberOfAssociations, Associations, listener, mode,
                    ACSE, DUL, result, diag, AcceptedPresentationContexts,
                    SOPClassesAsSCP, SOPClassesAsSCU, AssociationEstablished,
                    AssociationRefused, request, ans, response, inbox,
                    dispatched, abortInd, idleExpired, abortSent, releaseSent,
                    upc, uop, poolAtCheck >>

\* "if self.ACSE.CheckAbort()": the aborted callback, Kill and return
RunCheckAbort(a) ==
    /\ pc[a] = "abort"
    /\ IF abortInd[a] = "pending"
       THEN /\ abortInd' = [abortInd EXCEPT ![a] = "seen"]
            /\ callbacks' = Call(a, "on_association_aborted")
            /\ _Kill' = [_Kill EXCEPT ![a] = TRUE]
            /\ killedBy' = [killedBy EXCEPT ![a] = @ \cup {"abort"}]
            /\ pc' = [pc EXCEPT ![a] = "Kill339"]
       ELSE /\ pc' = [pc EXCEPT ![a] = "alive"]
            /\ UNCHANGED << abortInd, callbacks, _Kill, killedBy >>
    /\ UNCHANGED << AE, moves, MaxPDULength, scu, ctor,
                    MaxNumberOfAssociations, Associations, listener, mode,
                    ACSE, DUL, result, diag, AcceptedPresentationContexts,
                    SOPClassesAsSCP, SOPClassesAsSCU, AssociationEstablished,
                    AssociationRefused, request, ans, response, inbox,
                    dispatched, releaseReq, idleExpired, abortSent,
                    releaseSent, upc, uop, poolAtCheck >>

\* "if not self.DUL.isAlive()": Kill
RunCheckAlive(a) ==
    /\ pc[a] = "alive"
    /\ IF DUL[a] # "running"
       THEN /\ _Kill' = [_Kill EXCEPT ![a] = TRUE]
            /\ killedBy' = [killedBy EXCEPT ![a] = @ \cup {"dul"}]
            /\ pc' = [pc EXCEPT ![a] = "Kill344"]
       ELSE /\ pc' = [pc EXCEPT ![a] = "idle"]
            /\ UNCHANGED << _Kill, killedBy >>
    /\ UNCHANGED << AE, moves, MaxPDULength, scu, ctor,
                    MaxNumberOfAssociations, Associations, listener, mode,
                    ACSE, DUL, result, diag, AcceptedPresentationContexts,
                    SOPClassesAsSCP, SOPClassesAsSCU, AssociationEstablished,
                    AssociationRefused, request, ans, response, callbacks,
                    inbox, dispatched, releaseReq, abortInd, idleExpired,
                    abortSent, releaseSent, upc, uop, poolAtCheck >>

\* "if self.DUL.idle_timer_expired()": Kill
RunCheckIdle(a) ==
    /\ pc[a] = "idle"
    /\ IF idleExpired[a]
       THEN /\ _Kill' = [_Kill EXCEPT ![a] = TRUE]
            /\ killedBy' = [killedBy EXCEPT ![a] = @ \cup {"idle"}]
            /\ pc' = [pc EXCEPT ![a] = "Kill348"]
       ELSE /\ pc' = [pc EXCEPT ![a] = "loop"]
            /\ UNCHANGED << _Kill, killedBy >>
    /\ UNCHANGED << AE, moves, MaxPDULength, scu, ctor,
                    MaxNumberOfAssociations, Associations, listener, mode,
                    ACSE, DUL, result, diag, AcceptedPresentationContexts,
                    SOPClassesAsSCP, SOPClassesAsSCU, AssociationEstablished,
                    AssociationRefused, request, ans, response, callbacks,
                    inbox, dispatched, releaseReq, abortInd, idleExpired,
                    abortSent, releaseSent, upc, uop, poolAtCheck >>

(* ---------------------------- Association.Kill ------------------------- *)
\* where run() continues after the Kill() called at a line
AfterKill(p) ==
    CASE p = "Kill227" -> "done"
      [] p = "Kill333" -> "abort"
      [] p = "Kill339" -> "done"
      [] p = "Kill344" -> "idle"
      [] p = "Kill348" -> "loop"

InKill == {"Kill227", "Kill333", "Kill339", "Kill344", "Kill348"}

\* DUL.Stop(): TRUE once the reader has stopped; a running reader stops now
\* (stopped = TRUE) or not yet
DUL_Stop(d, stopped) ==
    IF d # "running" THEN [ret |-> TRUE, dul |-> d]
    ELSE IF stopped THEN [ret |-> TRUE, dul |-> "stopped"]
    ELSE [ret |-> FALSE, dul |-> d]

\* Kill() in the worker, after self._Kill = True: one round of
\* "while not self.DUL.Stop(): time.sleep(0.001)"
KillStop(a) ==
    /\ pc[a] \in InKill
    /\ \E stopped \in BOOLEAN :
         LET r == DUL_Stop(DUL[a], stopped)
         IN  /\ DUL' = [DUL EXCEPT ![a] = r.dul]
             /\ pc' = [pc EXCEPT ![a] = IF r.ret THEN AfterKill(@) ELSE @]
    /\ UNCHANGED << AE, moves, MaxPDULength, scu, ctor,
                    MaxNumberOfAssociations, Associations, listener, mode,
                    ACSE, result, diag, AcceptedPresentationContexts,
                    SOPClassesAsSCP, SOPClassesAsSCU, AssociationEstablished,
                    AssociationRefused, _Kill, request, ans, response,
                    callbacks, inbox, dispatched, releaseReq, abortInd,
                    idleExpired, abortSent, releaseSent, upc, uop,
                    poolAtCheck, killedBy >>

(* ------------------- Abort / Release / Kill by a caller ---------------- *)
CanCall(a) ==
    /\ mode[a] # "None"
    /\ upc[a] = "none"
    /\ SumOver(UserCallsOf, Assocs) < MaxUserCalls

\* Abort(reason): self.ACSE.Abort(reason), then Kill() sets self._Kill.
\* self.ACSE exists only once run() has set it: before that the attribute
\* lookup goes to __getattr__, which raises, and nothing else happens.
Abort(a) ==
    /\ CanCall(a)
    /\ uop' = [uop EXCEPT ![a] = "Abort"]
    /\ IF ACSE[a]
       THEN /\ abortSent' = [abortSent EXCEPT ![a] = TRUE]
            /\ _Kill' = [_Kill EXCEPT ![a] = TRUE]
            /\ upc' = [upc EXCEPT ![a] = "Kill"]
       ELSE /\ upc' = [upc EXCEPT ![a] = "raised"]
            /\ UNCHANGED << abortSent, _Kill >>
    /\ UNCHANGED << AE, moves, MaxPDULength, scu, ctor,
                    MaxNumberOfAssociations, Associations, listener, mode,
                    pc, ACSE, DUL, result, diag, AcceptedPresentationContexts,
                    SOPClassesAsSCP, SOPClassesAsSCU, AssociationEstablished,
                    AssociationRefused, request, ans, response, callbacks,
                    inbox, dispatched, releaseReq, abortInd, idleExpired,
                    releaseSent, poolAtCheck, killedBy >>

\* Release(reason): self.ACSE.Release(reason), then Kill()
Release(a) ==
    /\ CanCall(a)
    /\ uop' = [uop EXCEPT ![a] = "Release"]
    /\ IF ACSE[a]
       THEN /\ releaseSent' = [releaseSent EXCEPT ![a] = TRUE]
            /\ _Kill' = [_Kill EXCEPT ![a] = TRUE]
            /\ upc' = [upc EXCEPT ![a] = "Kill"]
       ELSE /\ upc' = [upc EXCEPT ![a] = "raised"]
            /\ UNCHANGED << releaseSent, _Kill >>
    /\ UNCHANGED << AE, moves, MaxPDULength, scu, ctor,
                    MaxNumberOfAssociations, Associations, listener, mode,
                    pc, ACSE, DUL, result, diag, AcceptedPresentationContexts,
                    SOPClassesAsSCP, SOPClassesAsSCU, AssociationEstablished,
                    AssociationRefused, request, ans, response, callbacks,
                    inbox, dispatched, releaseReq, abortInd, idleExpired,
                    abortSent, poolAtCheck, killedBy >>

\* Kill(): self._Kill = True, then the DUL.Stop loop
Kill(a) ==
    /\ CanCall(a)
    /\ uop' = [uop EXCEPT ![a] = "Kill"]
    /\ _Kill' = [_Kill EXCEPT ![a] = TRUE]
    /\ upc' = [upc EXCEPT ![a] = "Kill"]
    /\ UNCHANGED << AE, moves, MaxPDULength, scu, ctor,
                    MaxNumberOfAssociations, Associations, listener, mode,
                    pc, ACSE, DUL, result, diag, AcceptedPresentationContexts,
                    SOPClassesAsSCP, SOPClassesAsSCU, AssociationEstablished,
                    AssociationRefused, request, ans, response, callbacks,
                    inbox, dispatched, releaseReq, abortInd, idleExpired,
                    abortSent, releaseSent, poolAtCheck, killedBy >>

\* SCU without the check for an accepted context
SCU_Lookup_NoCheck(uid, sopclasses, maxpdu) ==
    LET matches == {i \in 1..Len(sopclasses) :
                        sopclasses[i][2] = UID2SOPClass(uid)}
    IN  IF matches = {}
        THEN [raised |-> FALSE, sent |-> TRUE, handler |-> UID2SOPClass(uid),
              pcid |-> 0, transfersyntax |-> "None", maxpdulength |-> maxpdu]
        ELSE LET s == sopclasses[CHOOSE i \in matches :
                                     \A j \in matches : i <= j]
             IN  [raised |-> FALSE, sent |-> TRUE,
                  handler |-> UID2SOPClass(uid), pcid |-> s[1],
                  transfersyntax |-> s[3], maxpdulength |-> maxpdu]

\* SCU(ds, id): the service object of ds.SOPClassUID gets the first entry of
\* SOPClassesAsSCU with its class, or SCU raises ("not supported as SCU");
\* then it gets ACSE.MaxPDULength and its SCU is run
SCU_Lookup(uid, sopclasses, maxpdu) ==
    LET matches == {i \in 1..Len(sopclasses) :
                        sopclasses[i][2] = UID2SOPClass(uid)}
    IN  IF matches = {}
        THEN [raised |-> TRUE, sent |-> FALSE, handler |-> UID2SOPClass(uid),
              pcid |-> 0, transfersyntax |-> "None", maxpdulength |-> 0]
        ELSE LET s == sopclasses[CHOOSE i \in matches :
                                     \A j \in matches : i <= j]
             IN  [raised |-> FALSE, sent |-> TRUE,
                  handler |-> UID2SOPClass(uid), pcid |-> s[1],
                  transfersyntax |-> s[3], maxpdulength |-> maxpdu]

\* a caller's SCU(ds, id) with a data set of SOP class uid
SCU(a, uid) ==
    /\ CanCall(a)
    /\ uop' = [uop EXCEPT ![a] = "SCU"]
    /\ scu' = [scu EXCEPT ![a] =
                  SCU_Lookup(uid, SOPClassesAsSCU[a], MaxPDULength[a])]
    /\ upc' = [upc EXCEPT ![a] = IF scu'[a].raised THEN "raised"
                                 ELSE "returned"]
    /\ UNCHANGED << AE, moves, MaxPDULength, ctor, MaxNumberOfAssociations,
                    Associations, listener, mode,
                    pc, ACSE, DUL, result, diag, AcceptedPresentationContexts,
                    SOPClassesAsSCP, SOPClassesAsSCU, AssociationEstablished,
                    AssociationRefused, _Kill, request, ans, response,
                    callbacks, inbox, dispatched, releaseReq, abortInd,
                    idleExpired, abortSent, releaseSent, poolAtCheck,
                    killedBy >>

\* one round of the caller's "while not self.DUL.Stop()" loop
CallerKillStop(a) ==
    /\ upc[a] = "Kill"
    /\ \E stopped \in BOOLEAN :
         LET r == DUL_Stop(DUL[a], stopped)
         IN  /\ DUL' = [DUL EXCEPT ![a] = r.dul]
             /\ upc' = [upc EXCEPT ![a] = IF r.ret THEN "returned" ELSE @]
    /\ UNCHANGED << AE, moves, MaxPDULength, scu, ctor,
                    MaxNumberOfAssociations, Associations, listener, mode,
                    pc, ACSE, result, diag, AcceptedPresentationContexts,
                    SOPClassesAsSCP, SOPClassesAsSCU, AssociationEstablished,
                    AssociationRefused, _Kill, request, ans, response,
                    callbacks, inbox, dispatched, releaseReq, abortInd,
                    idleExpired, abortSent, releaseSent, uop, poolAtCheck,
                    killedBy >>

(* ------------------------- the peer and the DUL ------------------------ *)
CanHappen(a) ==
    /\ AssociationEstablished[a]
    /\ pc[a] # "done"
    /\ DUL[a] = "running"
    /\ SumOver(PeerEventsOf, Assocs) < MaxPeerEvents

\* the peer's A-RELEASE request reaches ACSE.CheckRelease
PeerRelease(a) ==
    /\ CanHappen(a)
    /\ releaseReq[a] = "no"
    /\ releaseReq' = [releaseReq EXCEPT ![a] = "pending"]
    /\ UNCHANGED << AE, moves, MaxPDULength, scu, ctor,
                    MaxNumberOfAssociations, Associations, listener, mode,
                    pc, ACSE, DUL, result, diag, AcceptedPresentationContexts,
                    SOPClassesAsSCP, SOPClassesAsSCU, AssociationEstablished,
                    AssociationRefused, _Kill, request, ans, response,
                    callbacks, inbox, dispatched, abortInd, idleExpired,
                    abortSent, releaseSent, upc, uop, poolAtCheck, killedBy >>

\* the peer's A-ABORT reaches ACSE.CheckAbort
PeerAbort(a) ==
    /\ CanHappen(a)
    /\ abortInd[a] = "no"
    /\ abortInd' = [abortInd EXCEPT ![a] = "pending"]
    /\ UNCHANGED << AE, moves, MaxPDULength, scu, ctor,
                    MaxNumberOfAssociations, Associations, listener, mode,
                    pc, ACSE, DUL, result, diag, AcceptedPresentationContexts,
                    SOPClassesAsSCP, SOPClassesAsSCU, AssociationEstablished,
                    AssociationRefused, _Kill, request, ans, response,
                    callbacks, inbox, dispatched, releaseReq, idleExpired,
                    abortSent, releaseSent, upc, uop, poolAtCheck, killedBy >>

\* the idle timer of the DUL expires
IdleTimerExpires(a) ==
    /\ CanHappen(a)
    /\ ~idleExpired[a]
    /\ idleExpired' = [idleExpired EXCEPT ![a] = TRUE]
    /\ UNCHANGED << AE, moves, MaxPDULength, scu, ctor,
                    MaxNumberOfAssociations, Associations, listener, mode,
                    pc, ACSE, DUL, result, diag, AcceptedPresentationContexts,
                    SOPClassesAsSCP, SOPClassesAsSCU, AssociationEstablished,
                    AssociationRefused, _Kill, request, ans, response,
                    callbacks, inbox, dispatched, releaseReq, abortInd,
                    abortSent, releaseSent, upc, uop, poolAtCheck, killedBy >>

\* the DUL reader thread dies (transport death)
DULDies(a) ==
    /\ CanHappen(a)
    /\ DUL' = [DUL EXCEPT ![a] = "dead"]
    /\ UNCHANGED << AE, moves, MaxPDULength, scu, ctor,
                    MaxNumberOfAssociations, Associations, listener, mode,
                    pc, ACSE, result, diag, AcceptedPresentationContexts,
                    SOPClassesAsSCP, SOPClassesAsSCU, AssociationEstablished,
                    AssociationRefused, _Kill, request, ans, response,
                    callbacks, inbox, dispatched, releaseReq, abortInd,
                    idleExpired, abortSent, releaseSent, upc, uop,
                    poolAtCheck, killedBy >>

\* the peer completes a message on an acceptor association
PeerSends(a, uid, pcid) ==
    /\ mode[a] = "Acceptor"
    /\ AssociationEstablished[a]
    /\ pc[a] # "done"
    /\ DUL[a] = "running"
    /\ SumOver(MsgsOf, Assocs) < MaxMsgs
    /\ inbox' = [inbox EXCEPT ![a] = Append(@, [uid |-> uid, pcid |-> pcid])]
    /\ UNCHANGED << AE, moves, MaxPDULength, scu, ctor,
                    MaxNumberOfAssociations, Associations, listener, mode,
                    pc, ACSE, DUL, result, diag, AcceptedPresentationContexts,
                    SOPClassesAsSCP, SOPClassesAsSCU, AssociationEstablished,
                    AssociationRefused, _Kill, request, ans, response,
                    callbacks, dispatched, releaseReq, abortInd, idleExpired,
                    abortSent, releaseSent, upc, uop, poolAtCheck, killedBy >>

(* ------------------------------ behaviours ----------------------------- *)
Worker(a) ==
    \/ RunProviders(a)
    \/ RunCapacity(a)
    \/ RunAccept(a)
    \/ RunRequest(a)
    \/ RunEstablished(a)
    \/ RunLoop(a)
    \/ RunReceive(a)
    \/ RunCheckRelease(a)
    \/ RunCheckAbort(a)
    \/ RunCheckAlive(a)
    \/ RunCheckIdle(a)
    \/ KillStop(a)

\* One association and everything that can happen to it.
Next ==
    \/ \E cs \in ClientSockets, rae \in RemoteAEs : Construct(1, cs, rae)
    \/ AERegister(1)
    \/ AEPrune
    \/ Worker(1)
    \/ Abort(1)
    \/ Release(1)
    \/ Kill(1)
    \/ \E uid \in UIDs : SCU(1, uid)
    \/ CallerKillStop(1)
    \/ PeerRelease(1)
    \/ PeerAbort(1)
    \/ IdleTimerExpires(1)
    \/ DULDies(1)
    \/ \E uid \in UIDs, pcid \in MsgPcids : PeerSends(1, uid, pcid)

Spec == Init /\ [][Next]_vars

\* The acceptor path of run(), for the behaviours of several inbound
\* associations that share the AE.
AcceptorWorker(a) ==
    \/ RunProviders(a)
    \/ RunCapacity(a)
    \/ RunAccept(a)
    \/ RunEstablished(a)
    \/ RunLoop(a)
    \/ RunReceive(a)
    \/ RunCheckRelease(a)
    \/ RunCheckAbort(a)
    \/ RunCheckAlive(a)
    \/ RunCheckIdle(a)
    \/ KillStop(a)

\* Concurrent inbound associations of one AE; the peers release them.
NextInbound ==
    \/ \E a \in Assocs : Construct(a, "socket", "None")
    \/ \E a \in Assocs : AERegister(a)
    \/ AEPrune
    \/ \E a \in Assocs : AcceptorWorker(a)
    \/ \E a \in Assocs : PeerRelease(a)

SpecInbound == Init /\ [][NextInbound]_vars

(* ---------------- movescp.py: the C-MOVE service callback -------------- *)
\* the move destination titles a C-MOVE request may carry (16 bytes, padded
\* with spaces, or not)
MoveAETs == {"ANY-SCP         ", "ANY-SCP", "OTHER-SCP       "}

\* on_c_move: dcm_files, joined to basedir
dcm_files == << "../test/dicom_files/CTImageStorage.dcm" >>

\* a destination lookup that ignores the padding of the title
Destination_Stripped(move_aet) ==
    IF move_aet \in {"ANY-SCP         ", "ANY-SCP"}
    THEN [kind |-> "destination", addr |-> "10.40.94.43", port |-> 104]
    ELSE [kind |-> "destination", addr |-> "None", port |-> "None"]

\* on_c_move: "Address and port to send to"
Destination(move_aet) ==
    IF move_aet = "ANY-SCP         "
    THEN [kind |-> "destination", addr |-> "10.40.94.43", port |-> 104]
    ELSE [kind |-> "destination", addr |-> "None", port |-> "None"]

\* the association variables, which the generators do not touch
assocVars == << AE, ctor, MaxPDULength, scu, MaxNumberOfAssociations,
                Associations, listener, mode, pc, ACSE, DUL, result, diag,
                AcceptedPresentationContexts, SOPClassesAsSCP,
                SOPClassesAsSCU, AssociationEstablished, AssociationRefused,
                _Kill, request, ans, response, callbacks, inbox, dispatched,
                releaseReq, abortInd, idleExpired, abortSent, releaseSent,
                upc, uop, poolAtCheck, killedBy >>

\* on_c_move(dataset, move_aet) is called: a generator object, which has
\* run nothing yet
OnCMove(g, move_aet) ==
    /\ moves[g].pos = "unborn"
    /\ \A h \in Moves : h < g => moves[h].pos # "unborn"
    /\ moves' = [moves EXCEPT ![g] = [pos |-> "created",
                                      move_aet |-> move_aet,
                                      yielded |-> << >>]]
    /\ UNCHANGED assocVars

\* next() on the generator: it runs to its next yield, or to its end
GeneratorNext(g) ==
    LET m == moves[g]
        k == Len(m.yielded) - 2      \* payloads yielded so far
    IN  /\ m.pos \in {"created", "count", "destination", "dataset"}
        /\ moves' = [moves EXCEPT ![g] =
             CASE m.pos = "created" ->
                    [m EXCEPT !.pos = "count",
                              !.yielded = Append(@,
                                  [kind |-> "count",
                                   value |-> Len(dcm_files)])]
               [] m.pos = "count" ->
                    [m EXCEPT !.pos = "destination",
                              !.yielded = Append(@, Destination(m.move_aet))]
               [] m.pos \in {"destination", "dataset"} ->
                    IF k < Len(dcm_files)
                    THEN [m EXCEPT !.pos = "dataset",
                                   !.yielded = Append(@,
                                       [kind |-> "dataset",
                                        file |-> dcm_files[k + 1]])]
                    ELSE [m EXCEPT !.pos = "exhausted"]]
        /\ UNCHANGED assocVars

\* The core consumes the generators of several C-MOVE requests.
NextMove ==
    \/ \E g \in Moves, move_aet \in MoveAETs : OnCMove(g, move_aet)
    \/ \E g \in Moves : GeneratorNext(g)

SpecMove == Init /\ [][NextMove]_vars

\* The scheduler runs every thread that can take a step: the worker, and a
\* caller that is inside Kill's loop.  The peer, the timers and the callers
\* of Abort / Release / Kill are not obliged to act.
FairSpec == Spec /\ WF_vars(Worker(1)) /\ WF_vars(CallerKillStop(1))

(* ------------------------------- claims -------------------------------- *)
\* C1: an acceptor worker hands ACSE.Accept the preset rejected-transient /
\* local-limit-exceeded exactly when MaxNumberOfAssociations associations
\* are active at its capacity check: the request that comes on top of N
\* active associations is rejected, a request that finds fewer than N active
\* ones is not (requests that were rejected do not count).
C1_RejectedExactlyAtLimit ==
    \A a \in Assocs :
        poolAtCheck[a] # -1 =>
            ( ( /\ result[a] = A_ASSOCIATE_Result_RejectedTransient
                /\ diag[a] = A_ASSOCIATE_Diag_LocalLimitExceeded )
              <=> poolAtCheck[a] >= MaxNumberOfAssociations )

\* C2: the number of associations that are established and not yet torn
\* down never exceeds the configured maximum, for every interleaving of the
\* acceptor workers.
C2_ActiveWithinMaximum ==
    Cardinality(Active) <= MaxNumberOfAssociations

\* a peer release request, a peer abort, an idle-timer expiry or the death of
\* the DUL reader has occurred on the established association
TeardownEvent(a) ==
    /\ AssociationEstablished[a]
    /\ \/ releaseReq[a] = "pending"
       \/ abortInd[a] = "pending"
       \/ idleExpired[a]
       \/ DUL[a] = "dead"

TornDown(a) == _Kill[a] /\ DUL[a] # "running" /\ pc[a] = "done"

\* C3: in either mode, once a peer release request, a peer abort, an
\* idle-timer expiry or the death of the DUL reader has occurred on an
\* established association, the worker eventually has called Kill, the DUL
\* is stopped and run() has left its main loop.
C3_TeardownInEitherMode ==
    [](TeardownEvent(1) => <>TornDown(1))

Invoked(a, name) == \E i \in 1..Len(callbacks[a]) : callbacks[a][i] = name

\* C4: when the idle timer of an established association expires and the
\* worker acts on it, an abort has been issued for the association (ACSE
\* Abort), not only a stop of the DUL.
C4_IdleExpiryAborts ==
    \A a \in Assocs : "idle" \in killedBy[a] => abortSent[a]

\* C5: Abort(reason), called in any lifecycle state of the association,
\* issues the abort through ACSE and sets the kill flag.
C5_AbortFromAnyState ==
    \A a \in Assocs : uop[a] = "Abort" => abortSent[a] /\ _Kill[a]

\* C6: every message received on an acceptor association is handled by the
\* handler of the abstract syntax negotiated for the message's
\* presentation-context ID, set up with the ID and transfer syntax of that
\* accepted context.
C6_DispatchByNegotiatedContext ==
    \A a \in Assocs : \A i \in 1..Len(dispatched[a]) :
        LET d == dispatched[a][i]
        IN  \E j \in 1..Len(AcceptedPresentationContexts[a]) :
              LET c == AcceptedPresentationContexts[a][j]
              IN  /\ c[1] = d.msg.pcid
                  /\ d.handler = UID2SOPClass(c[2])
                  /\ d.pcid = c[1]
                  /\ d.transfersyntax = c[3]

\* C7: a received message that matches no accepted presentation context is
\* answered with the service's failure status.
C7_UnmatchedAnsweredWithFailure ==
    \A a \in Assocs : \A i \in 1..Len(dispatched[a]) :
        ~dispatched[a][i].matching_sop =>
            dispatched[a][i].answer = "failure"

\* C8: an acceptor worker that has terminated has reported an outcome
\* (established, rejected, aborted or released) through a callback of the AE.
C8_AcceptorReportsOutcome ==
    \A a \in Assocs :
        mode[a] = "Acceptor" /\ pc[a] = "done" =>
            \/ Invoked(a, "on_association_established")
            \/ Invoked(a, "on_association_rejected")
            \/ Invoked(a, "on_association_aborted")
            \/ Invoked(a, "on_association_released")

\* C9: on the requestor path, when ACSE.Request has returned not accepted,
\* AssociationRefused is set, on_association_rejected has been invoked if a
\* response is present, the DUL is killed, the worker has exited, and the
\* association is not established nor reported as established.
C9_RefusedRequestGetsOutcome ==
    \A a \in Assocs :
        mode[a] = "Requestor" /\ ans[a] = "False" =>
            /\ AssociationRefused[a] = "True"
            /\ response[a] # "None" => Invoked(a, "on_association_rejected")
            /\ DUL[a] = "killed"
            /\ pc[a] = "done"
            /\ ~AssociationEstablished[a]
            /\ ~Invoked(a, "on_association_established")

C9_Witness ==
    \E a \in Assocs :
        /\ mode[a] = "Requestor"
        /\ ans[a] = "False"
        /\ response[a] = "Rejected"
        /\ Invoked(a, "on_association_rejected")

\* C10 as claimed: the role-selection items handed to ACSE.Request are one
\* per context of the proposed list of the same request, each with that
\* context's abstract syntax.
C10_ItemsPerProposedContext ==
    \A a \in Assocs :
        ans[a] # "None" =>
            /\ Len(request[a].userspdu) = Len(request[a].contexts)
            /\ \A i \in 1..Len(request[a].userspdu) :
                 request[a].userspdu[i].SOPClassUID = request[a].contexts[i][2]

\* C10, as amended: the role-selection items handed to ACSE.Request are one
\* per entry of the AE's acceptable presentation contexts, in their order,
\* each with that entry's abstract syntax, SCU role 0 and SCP role 1; the
\* proposed list of the request is the AE's presentation-context definition
\* list.
C10_ItemsPerAcceptableContext ==
    \A a \in Assocs :
        ans[a] # "None" =>
            /\ request[a].contexts = AE.PresentationContextDefinitionList
            /\ Len(request[a].userspdu) =
                   Len(AE.AcceptablePresentationContexts)
            /\ \A i \in 1..Len(request[a].userspdu) :
                 /\ request[a].userspdu[i].SOPClassUID =
                        AE.AcceptablePresentationContexts[i][1]
                 /\ request[a].userspdu[i].SCURole = 0
                 /\ request[a].userspdu[i].SCPRole = 1

C10_Witness ==
    \E a \in Assocs :
        /\ ans[a] # "None"
        /\ Len(request[a].userspdu) = 2
        /\ Len(request[a].contexts) = 1
        /\ request[a].userspdu[2].SOPClassUID = request[a].contexts[1][2]

Neither(a) == ctor[a].ClientSocket = "None" /\ ctor[a].RemoteAE = "None"
Both(a) == ctor[a].ClientSocket # "None" /\ ctor[a].RemoteAE # "None"

\* C11: an Association constructed with neither or with both of a client
\* socket and a remote AE raises ValueError before a DUL provider exists or
\* a worker runs; constructed with exactly one, its mode is Acceptor for a
\* client socket and Requestor for a remote AE, its DUL provider exists and
\* its worker thread has been started by the constructor.
C11_ExactlyOneArgument ==
    \A a \in Assocs :
        pc[a] # "unborn" =>
            IF Neither(a) \/ Both(a)
            THEN /\ pc[a] = "ValueError"
                 /\ mode[a] = "None"
                 /\ DUL[a] = "none"
                 /\ ~ACSE[a]
            ELSE /\ pc[a] # "ValueError"
                 /\ mode[a] = IF ctor[a].ClientSocket # "None"
                              THEN "Acceptor" ELSE "Requestor"
                 /\ DUL[a] # "none"

C11_Witness ==
    \E a \in Assocs : Both(a) /\ pc[a] = "ValueError"

CapacityRejected(a) ==
    /\ result[a] = A_ASSOCIATE_Result_RejectedTransient
    /\ diag[a] = A_ASSOCIATE_Diag_LocalLimitExceeded
    /\ pc[a] \notin {"capacity", "accept"}

\* C12: an inbound association for which ACSE.Accept was called with the
\* preset rejected-transient / local-limit-exceeded is never treated as
\* accepted: no accepted nor established callback, AssociationEstablished
\* stays False and the worker never enters the dispatch loop.
C12_RejectedNeverAccepted ==
    \A a \in Assocs :
        CapacityRejected(a) =>
            /\ ~Invoked(a, "on_association_accepted")
            /\ ~Invoked(a, "on_association_established")
            /\ ~AssociationEstablished[a]
            /\ pc[a] \in {"Kill227", "done"}
            /\ SOPClassesAsSCP[a] = << >>
            /\ dispatched[a] = << >>

C12_Witness ==
    \E a \in Assocs : CapacityRejected(a) /\ pc[a] = "done" /\ _Kill[a]

\* C13: AssociationEstablished is True only if the negotiation succeeded
\* (ACSE.Accept returned an association on the acceptor path, ACSE.Request
\* returned accepted on the requestor path), and AssociationEstablished and
\* AssociationRefused are never both True.
C13_EstablishedOnlyIfNegotiated ==
    \A a \in Assocs :
        /\ AssociationEstablished[a] =>
              /\ AcceptedPresentationContexts[a] # << >>
              /\ Invoked(a, "on_association_accepted")
              /\ mode[a] = "Acceptor" =>
                     result[a] = "None" /\ SOPClassesAsSCP[a] # << >>
              /\ mode[a] = "Requestor" =>
                     ans[a] = "True" /\ response[a] = "Accepted"
        /\ ~(AssociationEstablished[a] /\ AssociationRefused[a] = "True")

C13_Witness ==
    \E a \in Assocs :
        /\ AssociationEstablished[a]
        /\ mode[a] = "Requestor"
        /\ AssociationRefused[a] = "None"
        /\ pc[a] = "loop"

Count(a, name) ==
    Cardinality({i \in 1..Len(callbacks[a]) : callbacks[a][i] = name})

Before(a, first, second) ==
    \A j \in 1..Len(callbacks[a]) :
        callbacks[a][j] = second =>
            \E i \in 1..(j-1) : callbacks[a][i] = first

\* C14: for each association, on_association_established is invoked at most
\* once and only after on_association_accepted; on_association_released and
\* on_association_aborted only after on_association_established; and of
\* released and aborted at most one is invoked, at most once.
C14_CallbackOrder ==
    \A a \in Assocs :
        /\ Count(a, "on_association_established") <= 1
        /\ Before(a, "on_association_accepted", "on_association_established")
        /\ Before(a, "on_association_established", "on_association_released")
        /\ Before(a, "on_association_established", "on_association_aborted")
        /\ Count(a, "on_association_released")
             + Count(a, "on_association_aborted") <= 1

C17_NothingAfterKillFlag ==
    [][ \A a \in Assocs :
          _Kill[a] =>
              /\ dispatched'[a] = dispatched[a]
              /\ ( callbacks'[a] # callbacks[a] =>
                     callbacks'[a][Len(callbacks'[a])]
                         # "on_association_established" ) ]_vars

C19_CountDestinationPayloads ==
    \A g \in Moves :
        LET y == moves[g].yielded
            n == Len(dcm_files)
        IN  /\ Len(y) <= n + 2
            /\ Len(y) >= 1 => y[1].kind = "count" /\ y[1].value = n
            /\ Len(y) >= 2 =>
                  /\ y[2].kind = "destination"
                  /\ IF moves[g].move_aet = "ANY-SCP         "
                     THEN y[2].addr = "10.40.94.43" /\ y[2].port = 104
                     ELSE y[2].addr = "None" /\ y[2].port = "None"
            /\ \A i \in 3..Len(y) :
                  y[i].kind = "dataset" /\ y[i].file = dcm_files[i - 2]
            /\ moves[g].pos = "exhausted" => Len(y) = n + 2

C19_Witness ==
    \E g \in Moves :
        /\ moves[g].pos = "exhausted"
        /\ moves[g].move_aet = "ANY-SCP"
        /\ Len(moves[g].yielded) = 3
        /\ moves[g].yielded[2].addr = "None"
====
